---- MODULE Spec2Model ----
(***************************************************************************)
(* Model of the markdown fence-repair engine (src/src/lib/markdown-utils.ts *)
(* repairMarkdown) and of the diagram sanitizer (src/src/lib/               *)
(* diagram-utils.ts).  Strings are sequences of one-character strings; line *)
(* indexes are 1-based here (index i models the code's index i-1).          *)
(***************************************************************************)
EXTENDS Integers, Sequences, FiniteSets, TLC

\* ---------------------------------------------------------------- bounds
MaxLines == 4

\* the pass cap of the repair loop
MaxPasses == 3

\* ------------------------------------------------------ string primitives
\* the backtick character; a TLA+ string literal cannot hold a backtick, so the
\* model writes it as ^ (no other use of ^ occurs in the modelled texts)
BT == "^"
NL == "\n"
CR == "\r"

\* characters removed by String.prototype.trim and matched by \s
IsWhitespace(c) == c \in {" ", "\t", CR, NL}

\* characters the regex dot does not match
IsLineTerminator(c) == c \in {CR, NL}

\* '`'.repeat(n)
Repeat(n) == [i \in 1..n |-> BT]

Min(S) == CHOOSE x \in S : \A y \in S : x <= y

Max0(S) == IF S = {} THEN 0 ELSE CHOOSE x \in S : \A y \in S : y <= x

\* String.prototype.includes
Includes(s, sub) ==
    \E i \in 1..(Len(s) - Len(sub) + 1) : SubSeq(s, i, i + Len(sub) - 1) = sub

\* String.prototype.startsWith
StartsWith(s, pre) ==
    Len(s) >= Len(pre) /\ SubSeq(s, 1, Len(pre)) = pre

\* number of leading characters of s that satisfy the class
LeadingWhitespace(s) ==
    Max0({n \in 1..Len(s) : \A i \in 1..n : IsWhitespace(s[i])})

LeadingTicks(s) ==
    Max0({n \in 1..Len(s) : \A i \in 1..n : s[i] = BT})

TrailingWhitespace(s) ==
    Max0({n \in 1..Len(s) : \A i \in (Len(s) - n + 1)..Len(s) : IsWhitespace(s[i])})

\* String.prototype.trim
Trim(s) ==
    IF \A i \in 1..Len(s) : IsWhitespace(s[i]) THEN <<>>
    ELSE SubSeq(s, LeadingWhitespace(s) + 1, Len(s) - TrailingWhitespace(s))

\* content.split('\n')
RECURSIVE Split(_)
Split(s) ==
    IF \A i \in 1..Len(s) : s[i] # NL THEN <<s>>
    ELSE LET k == Min({i \in 1..Len(s) : s[i] = NL})
         IN  <<SubSeq(s, 1, k - 1)>> \o Split(SubSeq(s, k + 1, Len(s)))

\* lines.join(sep)
RECURSIVE JoinWith(_, _)
JoinWith(ls, sep) ==
    IF Len(ls) = 0 THEN <<>>
    ELSE IF Len(ls) = 1 THEN ls[1]
    ELSE ls[1] \o sep \o JoinWith(Tail(ls), sep)

Join(ls) == JoinWith(ls, <<NL>>)

\* ------------------------------------------------------------ the regexes
\* (.*)$ matches the rest of the string only if the rest has no line terminator
DotStarToEnd(s) == \A i \in 1..Len(s) : ~IsLineTerminator(s[i])

NoMatch == [ok |-> FALSE, indent |-> <<>>, ticks |-> 0, rest |-> <<>>]

\* trimmed.match(/^(`+)(.*)$/)   and   line.match(/^(`{3,})(.*)$/)
MatchTicksRest(s, least) ==
    LET n == LeadingTicks(s)
        rest == SubSeq(s, n + 1, Len(s))
    IN  IF n >= least /\ DotStarToEnd(rest)
        THEN [ok |-> TRUE, indent |-> <<>>, ticks |-> n, rest |-> rest]
        ELSE NoMatch

\* line.match(/^(\s*)(`+)(.*)$/)
MatchIndentTicksRest(s) ==
    LET w == LeadingWhitespace(s)
        body == SubSeq(s, w + 1, Len(s))
        n == LeadingTicks(body)
        rest == SubSeq(body, n + 1, Len(body))
    IN  IF n >= 1 /\ DotStarToEnd(rest)
        THEN [ok |-> TRUE, indent |-> SubSeq(s, 1, w), ticks |-> n, rest |-> rest]
        ELSE NoMatch

\* line.match(/^(\s*)(`+)/)
MatchIndentTicks(s) ==
    LET w == LeadingWhitespace(s)
        body == SubSeq(s, w + 1, Len(s))
        n == LeadingTicks(body)
    IN  IF n >= 1
        THEN [ok |-> TRUE, indent |-> SubSeq(s, 1, w), ticks |-> n, rest |-> <<>>]
        ELSE NoMatch

\* MatchIndent that drops the indentation
MatchIndent_None(s) == <<>>

\* line.match(/^(\s*)/) : always matches
MatchIndent(s) == SubSeq(s, 1, LeadingWhitespace(s))

\* ------------------------------------------------------------ fence lines
Null == [index |-> 0, length |-> 0, info |-> <<>>, raw |-> <<>>]

\* FenceOf with an unanchored test: any line holding three backticks is a fence
FenceOf_Unanchored(line, idx) ==
    IF ~Includes(line, Repeat(3)) THEN Null
    ELSE [index |-> idx, length |-> 3, info |-> <<>>, raw |-> line]

\* the callback of lines.map: the fence record of line idx, or Null
FenceOf(line, idx) ==
    LET trimmed == Trim(line)
        m == MatchTicksRest(trimmed, 1)
    IN  IF ~StartsWith(trimmed, Repeat(3)) THEN Null
        ELSE IF ~m.ok THEN Null
        ELSE [index |-> idx, length |-> m.ticks, info |-> Trim(m.rest), raw |-> line]

\* lines.map(...).filter(Boolean)
RECURSIVE FenceLinesFrom(_, _)
FenceLinesFrom(lines, idx) ==
    IF idx > Len(lines) THEN <<>>
    ELSE LET f == FenceOf(lines[idx], idx)
         IN  (IF f = Null THEN <<>> ELSE <<f>>) \o FenceLinesFrom(lines, idx + 1)

FenceLines(lines) == FenceLinesFrom(lines, 1)

\* ClosesBlock without the length comparison
ClosesBlock_AnyLength(fence, opener) ==
    fence.info = <<>>

\* the test that lets a fence close the open block
ClosesBlock(fence, opener) ==
    fence.length >= opener.length /\ fence.info = <<>>

\* the opener/closer pairing walk over the fence lines
RECURSIVE WalkFrom(_, _, _, _)
WalkFrom(fenceLines, i, currentBlockStartFence, blocks) ==
    IF i > Len(fenceLines)
    THEN [currentBlockStartFence |-> currentBlockStartFence, blocks |-> blocks]
    ELSE LET fence == fenceLines[i]
         IN  IF currentBlockStartFence = Null
             THEN WalkFrom(fenceLines, i + 1, fence, blocks)
             ELSE IF ClosesBlock(fence, currentBlockStartFence)
             THEN WalkFrom(fenceLines, i + 1, Null,
                           Append(blocks, [start |-> currentBlockStartFence.index,
                                           end |-> fence.index,
                                           fenceLength |-> currentBlockStartFence.length]))
             ELSE WalkFrom(fenceLines, i + 1, currentBlockStartFence, blocks)

Walk(fenceLines) == WalkFrom(fenceLines, 1, Null, <<>>)

\* fenceLines.find(f => f.index > after /\ ...): first fence of the set of positions
FirstOf(fenceLines, S) ==
    IF S = {} THEN Null ELSE fenceLines[Min(S)]

\* ----------------------------------------------- 2.5 unclosed-block repair
\* UnclosedCandidate without the length filter
UnclosedCandidate_AnyLength(fenceLines, opener) ==
    FirstOf(fenceLines, {k \in 1..Len(fenceLines) :
                            /\ fenceLines[k].index > opener.index
                            /\ fenceLines[k].info = <<>>})

\* the find of step 2.5: a later fence with empty info and sufficient length
UnclosedCandidate(fenceLines, opener) ==
    FirstOf(fenceLines, {k \in 1..Len(fenceLines) :
                            /\ fenceLines[k].index > opener.index
                            /\ fenceLines[k].info = <<>>
                            /\ fenceLines[k].length >= opener.length})

\* outcome of step 2.5: the lines, the blocks, and whether the pass restarts
UnclosedRepair(lines, fenceLines, walk) ==
    LET opener == walk.currentBlockStartFence
        nextFence == UnclosedCandidate(fenceLines, opener)
    IN  IF opener = Null
        THEN [lines |-> lines, blocks |-> walk.blocks, changesMade |-> FALSE]
        ELSE IF nextFence # Null
        THEN IF nextFence.length < opener.length
             THEN [lines |-> [lines EXCEPT ![nextFence.index] =
                                 MatchIndentTicks(lines[nextFence.index]).indent
                                     \o Repeat(opener.length)],
                   blocks |-> walk.blocks, changesMade |-> TRUE]
             ELSE [lines |-> lines,
                   blocks |-> Append(walk.blocks, [start |-> opener.index,
                                                   end |-> nextFence.index,
                                                   fenceLength |-> opener.length]),
                   changesMade |-> FALSE]
        ELSE [lines |-> Append(lines, MatchIndent(lines[opener.index])
                                          \o Repeat(opener.length)),
              blocks |-> walk.blocks, changesMade |-> TRUE]

\* ------------------------------------------------- 3 fragmentation repair
\* the first fence after the block's closer
FenceAfter(fenceLines, block) ==
    FirstOf(fenceLines, {k \in 1..Len(fenceLines) : fenceLines[k].index > block.end})

\* lines.slice(block.end + 1, nextFence.index).join('').trim()
ContentBetween(lines, block, nextFence) ==
    Trim(JoinWith(SubSeq(lines, block.end + 1, nextFence.index - 1), <<>>))

\* the merge heuristic of step 3
ShouldMerge(lines, blocks, block, nextFence) ==
    LET isNextFenceStart == \E b \in 1..Len(blocks) : blocks[b].start = nextFence.index
    IN  /\ (~isNextFenceStart \/ ContentBetween(lines, block, nextFence) = <<>>)
        /\ nextFence.info = <<>>

\* Widen with the opener index off by one
Widen_OffByOne(lines, start, other, newLength) ==
    LET startMatch == MatchIndentTicksRest(lines[start])
        endMatch == MatchIndentTicks(lines[other])
        endIndent == IF endMatch.ok THEN endMatch.indent ELSE startMatch.indent
    IN  [lines EXCEPT ![start + 1] = startMatch.indent \o Repeat(newLength) \o startMatch.rest,
                      ![other] = endIndent \o Repeat(newLength)]

\* rewrite of the opener line at start and of the fence line at other to newLength
Widen(lines, start, other, newLength) ==
    LET startMatch == MatchIndentTicksRest(lines[start])
        endMatch == MatchIndentTicks(lines[other])
        endIndent == IF endMatch.ok THEN endMatch.indent ELSE startMatch.indent
    IN  [lines EXCEPT ![start] = startMatch.indent \o Repeat(newLength) \o startMatch.rest,
                      ![other] = endIndent \o Repeat(newLength)]

\* the loop of step 3 from block i on: stops at the first block it rewrites
RECURSIVE FragmentationFrom(_, _, _, _)
FragmentationFrom(lines, fenceLines, blocks, i) ==
    IF i > Len(blocks) THEN [lines |-> lines, changesMade |-> FALSE]
    ELSE LET block == blocks[i]
             nextFence == FenceAfter(fenceLines, block)
         IN  IF nextFence = Null
             THEN FragmentationFrom(lines, fenceLines, blocks, i + 1)
             ELSE IF /\ ShouldMerge(lines, blocks, block, nextFence)
                     /\ MatchIndentTicksRest(lines[block.start]).ok
             THEN [lines |-> Widen(lines, block.start, nextFence.index,
                                   block.fenceLength + 1),
                   changesMade |-> TRUE]
             ELSE FragmentationFrom(lines, fenceLines, blocks, i + 1)

\* --------------------------------------------------- 4 nested-fence repair
\* MaxInnerBackticks that also counts the fences with an info string
MaxInnerBackticks_AnyInfo(lines, block) ==
    Max0({MatchTicksRest(Trim(lines[j]), 3).ticks : j \in
             {j \in (block.start + 1)..(block.end - 1) :
                 MatchTicksRest(Trim(lines[j]), 3).ok}})

\* the longest empty-info fence strictly inside the block
MaxInnerBackticks(lines, block) ==
    Max0({MatchTicksRest(Trim(lines[j]), 3).ticks : j \in
             {j \in (block.start + 1)..(block.end - 1) :
                 LET m == MatchTicksRest(Trim(lines[j]), 3)
                 IN  m.ok /\ Trim(m.rest) = <<>>}})

\* the loop of step 4 from block i on: stops at the first block it rewrites
RECURSIVE NestedFrom(_, _, _)
NestedFrom(lines, blocks, i) ==
    IF i > Len(blocks) THEN [lines |-> lines, changesMade |-> FALSE]
    ELSE LET block == blocks[i]
             maxInnerBackticks == MaxInnerBackticks(lines, block)
         IN  IF /\ maxInnerBackticks >= block.fenceLength
                /\ MatchIndentTicksRest(lines[block.start]).ok
             THEN [lines |-> Widen(lines, block.start, block.end, maxInnerBackticks + 1),
                   changesMade |-> TRUE]
             ELSE NestedFrom(lines, blocks, i + 1)

\* ------------------------------------------------------------- one pass
\* the body of the for loop: the lines after the pass and whether it rewrote
RepairPass(lines) ==
    LET fenceLines == FenceLines(lines)
        walk == Walk(fenceLines)
        unclosed == UnclosedRepair(lines, fenceLines, walk)
        frag == FragmentationFrom(lines, fenceLines, unclosed.blocks, 1)
        nested == NestedFrom(lines, unclosed.blocks, 1)
    IN  IF unclosed.changesMade
        THEN [lines |-> unclosed.lines, changesMade |-> TRUE, step |-> "unclosed"]
        ELSE IF frag.changesMade
        THEN [lines |-> frag.lines, changesMade |-> TRUE, step |-> "fragmentation"]
        ELSE IF nested.changesMade
        THEN [lines |-> nested.lines, changesMade |-> TRUE, step |-> "nested"]
        ELSE [lines |-> lines, changesMade |-> FALSE, step |-> "none"]

\* the whole loop as a function: the lines after at most n further passes
RECURSIVE RepairLoop(_, _)
RepairLoop(lines, n) ==
    IF n = 0 THEN lines
    ELSE LET r == RepairPass(lines)
         IN  IF r.changesMade THEN RepairLoop(r.lines, n - 1) ELSE r.lines

\* repairMarkdown as a function of its argument
RepairMarkdown(content) ==
    IF ~Includes(content, Repeat(3)) THEN content
    ELSE Join(RepairLoop(Split(content), MaxPasses))

\* ------------------------------------------------------------- the inputs
\* the lines an input text is made of: blank, prose, prose with three backticks
\* in mid-line, closers of 3, 4 and (indented) 5 backticks, openers of 3 and 4
\* backticks with an info string, and an opener that ends in a carriage return
InputLines ==
    {<<>>, <<"a">>, <<"a">> \o Repeat(3),
     Repeat(3), Repeat(4), <<" ">> \o Repeat(5),
     Repeat(3) \o <<"a">>, Repeat(4) \o <<"a">>,
     Repeat(3) \o <<"a", CR>>}

Documents == UNION {[1..n -> InputLines] : n \in 1..MaxLines}

\* --------------------------------------------------------------- the state
VARIABLES content, lines, pass, changesMade, step, pc, result

\* the call of a diagram function: its name, its argument and what it returned
VARIABLES op, arg, ret

dvars == <<op, arg, ret>>

vars == <<content, lines, pass, changesMade, step, pc, result, op, arg, ret>>

Init ==
    /\ content \in {Join(d) : d \in Documents}
    /\ lines = <<>>
    /\ pass = 0
    /\ changesMade = FALSE
    /\ step = "none"
    /\ pc = "entry"
    /\ result = <<>>
    /\ op = "repairMarkdown"
    /\ arg = <<>>
    /\ ret = <<>>

\* lines 6-8: text without three backticks in a row is returned as it is
EarlyReturn ==
    /\ pc = "entry"
    /\ ~Includes(content, Repeat(3))
    /\ result' = content
    /\ pc' = "done"
    /\ UNCHANGED <<content, lines, pass, changesMade, step>>
    /\ UNCHANGED dvars

\* lines 10-11: split into lines and enter the loop
Enter ==
    /\ pc = "entry"
    /\ Includes(content, Repeat(3))
    /\ lines' = Split(content)
    /\ pc' = "loop"
    /\ UNCHANGED <<content, pass, changesMade, step, result>>
    /\ UNCHANGED dvars

\* Pass that goes on to the next pass although nothing was rewritten
Pass_NoEarlyStop ==
    /\ pc = "loop"
    /\ pass < MaxPasses
    /\ LET r == RepairPass(lines)
       IN  /\ lines' = r.lines
           /\ changesMade' = r.changesMade
           /\ step' = r.step
           /\ pass' = pass + 1
           /\ pc' = IF pass + 1 < MaxPasses THEN "loop" ELSE "return"
    /\ UNCHANGED <<content, result>>
    /\ UNCHANGED dvars

\* one iteration of the for loop; a rewriting pass continues while passes remain
Pass ==
    /\ pc = "loop"
    /\ pass < MaxPasses
    /\ LET r == RepairPass(lines)
       IN  /\ lines' = r.lines
           /\ changesMade' = r.changesMade
           /\ step' = r.step
           /\ pass' = pass + 1
           /\ pc' = IF r.changesMade /\ pass + 1 < MaxPasses THEN "loop" ELSE "return"
    /\ UNCHANGED <<content, result>>
    /\ UNCHANGED dvars

\* Return that gives the input back when the last pass still rewrote
Return_Rollback ==
    /\ pc = "return"
    /\ result' = IF changesMade THEN content ELSE Join(lines)
    /\ pc' = "done"
    /\ UNCHANGED <<content, lines, pass, changesMade, step>>
    /\ UNCHANGED dvars

\* line 192: return lines.join('\n')
Return ==
    /\ pc = "return"
    /\ result' = Join(lines)
    /\ pc' = "done"
    /\ UNCHANGED <<content, lines, pass, changesMade, step>>
    /\ UNCHANGED dvars

Next == EarlyReturn \/ Enter \/ Pass \/ Return

Spec == Init /\ [][Next]_vars

\* Rank strictly decreases at every step: entry, then at most MaxPasses passes,
\* then the return
Rank ==
    CASE pc = "entry" -> MaxPasses + 2
      [] pc = "loop" -> MaxPasses - pass + 1
      [] pc = "return" -> 1
      [] pc = "done" -> 0

TypeOK ==
    /\ pass \in 0..MaxPasses
    /\ changesMade \in BOOLEAN
    /\ pc \in {"entry", "loop", "return", "done"}

\* ------------------------------------------------------------------ claims
InLines == Split(content)
OutLines == Split(result)

\* a fence line in the sense of the repair's contract: trimmed text starts with
\* three backticks
IsFenceText(line) == StartsWith(Trim(line), Repeat(3))

\* the last executed pass still made a rewrite when the cap was reached
CapExhausted == pass = MaxPasses /\ changesMade

\* C1: idempotence - repairing the returned text again returns it unchanged
C1_Idempotent ==
    pc = "done" => RepairMarkdown(result) = result

\* C2: closed-block guarantee - in the returned text the pairing walk leaves
\* no opener without a closer
C2_AllBlocksClosed ==
    pc = "done" => Walk(FenceLines(OutLines)).currentBlockStartFence = Null

\* C3: fence-length monotonicity - at every index that holds a fence line in
\* the input, the backtick run of the returned line is at least as long
C3_NeverShrinks ==
    pc = "done" =>
        \A i \in 1..Len(InLines) :
            FenceOf(InLines[i], i) # Null =>
                /\ i <= Len(OutLines)
                /\ LeadingTicks(Trim(OutLines[i])) >= LeadingTicks(Trim(InLines[i]))

\* C4: only fence lines change - every non-fence input line is returned
\* byte-identical at its index, and every added line is a closing fence
\* appended after the last input line
C4_OnlyFenceLinesChange ==
    pc = "done" =>
        /\ Len(OutLines) >= Len(InLines)
        /\ \A i \in 1..Len(InLines) :
               ~IsFenceText(InLines[i]) => OutLines[i] = InLines[i]
        /\ \A i \in (Len(InLines) + 1)..Len(OutLines) :
               LET t == Trim(OutLines[i])
               IN  Len(t) >= 3 /\ t = Repeat(Len(t))

C4_Witness ==
    /\ pc = "done"
    /\ Len(OutLines) > Len(InLines)
    /\ \E i \in 1..Len(InLines) : IsFenceText(InLines[i]) /\ OutLines[i] # InLines[i]
    /\ \E i \in 1..Len(InLines) : ~IsFenceText(InLines[i]) /\ InLines[i] # <<>>

\* C5: non-destruction - a text without any fence line is returned exactly
C5_NoFenceNoChange ==
    pc = "done" =>
        ((\A i \in 1..Len(InLines) : ~IsFenceText(InLines[i])) => result = content)

\* a text whose only triple backticks are in mid-line went through a pass
C5_Witness ==
    /\ pc = "done"
    /\ pass = 1
    /\ Includes(content, Repeat(3))
    /\ \A i \in 1..Len(InLines) : ~IsFenceText(InLines[i])
    /\ Len(InLines) >= 2

\* the text is a single valid block: its first fence opens with n backticks,
\* its last fence has no info string and at least n backticks, and every fence
\* in between is shorter than n
ValidSingleBlock(text) ==
    LET fl == FenceLines(Split(text))
    IN  /\ Len(fl) >= 2
        /\ fl[Len(fl)].info = <<>>
        /\ fl[Len(fl)].length >= fl[1].length
        /\ \A k \in 2..(Len(fl) - 1) : fl[k].length < fl[1].length

\* C6: an already-valid single block is returned unchanged
C6_ValidBlockUnchanged ==
    pc = "done" => (ValidSingleBlock(content) => result = content)

\* a 4-backtick block with an info string that holds a 3-backtick line and prose
C6_Witness ==
    /\ pc = "done"
    /\ ValidSingleBlock(content)
    /\ LET fl == FenceLines(InLines)
       IN  /\ Len(fl) = 3
           /\ fl[1].length = 4 /\ fl[1].info # <<>>
           /\ fl[2].length = 3
           /\ Len(InLines) = 4
    /\ result = content

\* the input of scenario 2: a 4-backtick opener with info string, a 3-backtick
\* line, prose, a final 3-backtick line
Scenario2 == Join(<<Repeat(4) \o <<"a">>, Repeat(3), <<"a">>, Repeat(3)>>)

\* C7 as claimed: both 3-backtick lines of scenario 2 come back with at least
\* 4 backticks
C7_BothWidened ==
    (pc = "done" /\ content = Scenario2) =>
        /\ LeadingTicks(Trim(OutLines[2])) >= 4
        /\ LeadingTicks(Trim(OutLines[4])) >= 4

\* C7 amended: scenario 2 comes back with its four lines unchanged and one
\* 4-backtick closer appended, and the returned text is one block from the
\* opener to the appended closer
C7_CloserAppended ==
    (pc = "done" /\ content = Scenario2) =>
        /\ result = Scenario2 \o <<NL>> \o Repeat(4)
        /\ Walk(FenceLines(OutLines)) =
               [currentBlockStartFence |-> Null,
                blocks |-> <<[start |-> 1, end |-> 5, fenceLength |-> 4]>>]

C7_Witness ==
    pc = "done" /\ content = Scenario2 /\ pass = 2 /\ Len(OutLines) = 5

\* the nested same-length input: opener with info, fence with info, two closers
NestedSame(n) ==
    Join(<<Repeat(n) \o <<"a">>, Repeat(n) \o <<"a">>, Repeat(n), Repeat(n)>>)

\* C8: the nested same-length input comes back with exactly its first and last
\* line widened to n+1 backticks and nothing appended
C8_OuterPairWidened ==
    \A n \in 3..4 :
        (pc = "done" /\ content = NestedSame(n)) =>
            result = Join(<<Repeat(n + 1) \o <<"a">>, Repeat(n) \o <<"a">>,
                            Repeat(n), Repeat(n + 1)>>)

\* C9: the call ends without getting stuck (every step lowers Rank, and a state
\* inside the loop always has a pass left to run), runs at most MaxPasses passes,
\* and a pass that rewrites nothing is the last one
C9_Terminates ==
    /\ [](pass <= MaxPasses)
    /\ [](pc = "loop" => pass < MaxPasses)
    /\ [][Rank' < Rank]_vars
    /\ [][(pc = "loop" /\ lines' = lines) => (pc' = "return" /\ ~changesMade')]_vars

\* a call that stopped after a second pass that rewrote nothing
C9_Witness ==
    pc = "done" /\ pass = 2 /\ ~changesMade /\ result # content

\* C10 as claimed: when the last pass of the cap still rewrote, the input is
\* returned unchanged
C10_InputReturnedOnExhaustion ==
    (pc = "done" /\ CapExhausted) => result = content

\* C10 amended: when the last pass of the cap still rewrote, the text as left
\* by the three passes is returned, and it differs from the input
C10_RewrittenReturnedOnExhaustion ==
    (pc = "done" /\ CapExhausted) =>
        /\ result = Join(RepairPass(RepairPass(RepairPass(InLines).lines).lines).lines)
        /\ result # content

C10_Witness ==
    pc = "done" /\ CapExhausted

\* ==================================================== the diagram sanitizer
\* (src/src/lib/diagram-utils.ts)

\* bounds of the diagram inputs
MaxText == 4

Letters ==
    {"a", "b", "c", "d", "e", "f", "g", "h", "i", "j", "k", "l", "m", "n", "o",
     "p", "q", "r", "s", "t", "u", "v", "w", "x", "y", "z",
     "A", "B", "C", "D", "E", "F", "G", "H", "I", "J", "K", "L", "M", "N", "O",
     "P", "Q", "R", "S", "T", "U", "V", "W", "X", "Y", "Z"}

Digits == {"0", "1", "2", "3", "4", "5", "6", "7", "8", "9"}

\* [a-zA-Z0-9]
IsAlnum(c) == c \in Letters \cup Digits

\* \w
IsWord(c) == IsAlnum(c) \/ c = "_"

\* [\w-]
IsIdChar(c) == IsWord(c) \/ c = "-"

\* [a-zA-Z0-9 .,;:!?()\-_]
IsSafeChar(c) ==
    IsAlnum(c) \/ c \in {" ", ".", ",", ";", ":", "!", "?", "(", ")", "-", "_"}

\* a global replace written character by character: the characters the
\* replace removes are marked and then left out
Dropped == ""
Kept(marked) == SelectSeq(marked, LAMBDA c : c # Dropped)

\* s with every character in the set replaced by the string to (one character
\* or none)
ReplaceChars(s, set, to) ==
    Kept([i \in 1..Len(s) |->
             IF s[i] \notin set THEN s[i] ELSE IF to = <<>> THEN Dropped ELSE to[1]])

\* .replace(/<[^>]*>/g, ' ') : every < up to the next > becomes one space. A
\* character is in a tag when a < at or before it has no > in between and a >
\* follows; the tag's > gives the space
InTag(s, i) ==
    /\ \E j \in 1..i : s[j] = "<" /\ \A m \in j..(i - 1) : s[m] # ">"
    /\ \E k \in i..Len(s) : s[k] = ">"

StripTags(s) ==
    Kept([i \in 1..Len(s) |->
             IF ~InTag(s, i) THEN s[i] ELSE IF s[i] = ">" THEN " " ELSE Dropped])

\* .replace(/\s+/g, ' ') : every run of whitespace becomes one space
CollapseSpaces(s) ==
    Kept([i \in 1..Len(s) |->
             IF ~IsWhitespace(s[i]) THEN s[i]
             ELSE IF i = 1 \/ ~IsWhitespace(s[i - 1]) THEN " " ELSE Dropped])

\* sanitizeMermaidText without the safe-class filter
SanitizeMermaidText_NoFilter(text) ==
    Trim(CollapseSpaces(
        ReplaceChars(ReplaceChars(ReplaceChars(StripTags(text),
            {BT, "\"", "'", "<", ">"}, <<>>),
            {"\\", "/"}, <<" ">>),
            {NL, "\t"}, <<" ">>)))

\* sanitizeMermaidText
SanitizeMermaidText(text) ==
    Trim(CollapseSpaces(SelectSeq(
        ReplaceChars(ReplaceChars(ReplaceChars(StripTags(text),
            {BT, "\"", "'", "<", ">"}, <<>>),
            {"\\", "/"}, <<" ">>),
            {NL, "\t"}, <<" ">>),
        IsSafeChar)))

\* the characters the label texts are made of: a letter, a space, the tag
\* brackets, a quote, a slash, a tab, a safe punctuation mark and a character
\* outside the safe class
TextChars == {"a", " ", "<", ">", "\"", "/", "\t", "-", "#"}

Texts == UNION {[1..n -> TextChars] : n \in 0..MaxText}

\* the repair variables while a diagram function is called
RepairIdle ==
    /\ content = <<>>
    /\ lines = <<>>
    /\ pass = 0
    /\ changesMade = FALSE
    /\ step = "none"
    /\ result = <<>>

\* ---------------------------------------------------- sanitizeMermaidText
TextInit ==
    /\ RepairIdle
    /\ pc = "call"
    /\ op = "sanitizeMermaidText"
    /\ arg \in Texts
    /\ ret = <<>>

CallSanitizeMermaidText ==
    /\ pc = "call"
    /\ op = "sanitizeMermaidText"
    /\ ret' = SanitizeMermaidText(arg)
    /\ pc' = "done"
    /\ UNCHANGED <<content, lines, pass, changesMade, step, result, op, arg>>

TextSpec == TextInit /\ [][CallSanitizeMermaidText]_vars

\* C11: the sanitized text holds only letters, digits, single spaces and the
\* punctuation . , ; : ! ? ( ) - _ ; it has no whitespace at either end and no
\* two whitespace characters in a row
C11_SafeText ==
    pc = "done" =>
        /\ \A i \in 1..Len(ret) :
               \/ ret[i] \in Letters \cup Digits
               \/ ret[i] \in {" ", ".", ",", ";", ":", "!", "?", "(", ")", "-", "_"}
        /\ ret # <<>> => (ret[1] # " " /\ ret[Len(ret)] # " ")
        /\ \A i \in 1..(Len(ret) - 1) : ~(ret[i] = " " /\ ret[i + 1] = " ")

\* a text whose removed characters left two spaces side by side was collapsed
C11_Witness ==
    /\ pc = "done"
    /\ arg = <<"a", "/", " ", "a">>
    /\ ret = <<"a", " ", "a">>

\* -------------------------------------------------- validateMermaidSyntax
\* bound of the validated texts: the number of pieces a text is made of
MaxPieces == 2

\* the value of a missing property or an absent optional result field
Undefined == <<"undefined">>

\* the validTypes array
ValidTypes ==
    <<<<"g", "r", "a", "p", "h">>,
      <<"f", "l", "o", "w", "c", "h", "a", "r", "t">>,
      <<"s", "e", "q", "u", "e", "n", "c", "e", "D", "i", "a", "g", "r", "a", "m">>,
      <<"c", "l", "a", "s", "s", "D", "i", "a", "g", "r", "a", "m">>,
      <<"s", "t", "a", "t", "e", "D", "i", "a", "g", "r", "a", "m">>,
      <<"e", "r", "D", "i", "a", "g", "r", "a", "m">>,
      <<"g", "a", "n", "t", "t">>>>

\* validateMermaidSyntax that tests the untrimmed text for emptiness
ValidateMermaidSyntax_NoTrim(code) ==
    LET trimmed == Trim(code)
        hasValidType == \E k \in 1..Len(ValidTypes) : Includes(trimmed, ValidTypes[k])
    IN  IF code = <<>>
        THEN [valid |-> FALSE, error |-> "Empty diagram code"]
        ELSE IF ~hasValidType
        THEN [valid |-> FALSE, error |-> "Invalid or missing diagram type"]
        ELSE [valid |-> TRUE, error |-> "undefined"]

\* validateMermaidSyntax: the returned object (error "undefined" when absent)
ValidateMermaidSyntax(code) ==
    LET trimmed == Trim(code)
        hasValidType == \E k \in 1..Len(ValidTypes) : Includes(trimmed, ValidTypes[k])
    IN  IF trimmed = <<>>
        THEN [valid |-> FALSE, error |-> "Empty diagram code"]
        ELSE IF ~hasValidType
        THEN [valid |-> FALSE, error |-> "Invalid or missing diagram type"]
        ELSE [valid |-> TRUE, error |-> "undefined"]

\* the pieces the validated texts are made of: the seven keywords, white
\* space, prose, the rest of a small graph, and a keyword in another case
Pieces ==
    {ValidTypes[k] : k \in 1..Len(ValidTypes)}
    \cup {<<" ">>, <<NL>>, <<"j", "u", "s", "t", " ", "s", "o", "m", "e", " ", "p", "r", "o", "s", "e">>, <<" ", "T", "D", NL, "A", "-", "-", ">", "B">>, <<"G", "r", "a", "p", "h">>}

ValidatedTexts ==
    {JoinWith(ps, <<>>) : ps \in UNION {[1..n -> Pieces] : n \in 0..MaxPieces}}

ValidateInit ==
    /\ RepairIdle
    /\ pc = "call"
    /\ op = "validateMermaidSyntax"
    /\ arg \in ValidatedTexts
    /\ ret = <<>>

CallValidateMermaidSyntax ==
    /\ pc = "call"
    /\ op = "validateMermaidSyntax"
    /\ ret' = ValidateMermaidSyntax(arg)
    /\ pc' = "done"
    /\ UNCHANGED <<content, lines, pass, changesMade, step, result, op, arg>>

ValidateSpec == ValidateInit /\ [][CallValidateMermaidSyntax]_vars

\* the text holds one of the diagram keywords of the claim
HasDiagramKeyword(text) ==
    \/ Includes(text, <<"g", "r", "a", "p", "h">>)
    \/ Includes(text, <<"f", "l", "o", "w", "c", "h", "a", "r", "t">>)
    \/ Includes(text, <<"s", "e", "q", "u", "e", "n", "c", "e", "D", "i", "a", "g", "r", "a", "m">>)
    \/ Includes(text, <<"c", "l", "a", "s", "s", "D", "i", "a", "g", "r", "a", "m">>)
    \/ Includes(text, <<"s", "t", "a", "t", "e", "D", "i", "a", "g", "r", "a", "m">>)
    \/ Includes(text, <<"e", "r", "D", "i", "a", "g", "r", "a", "m">>)
    \/ Includes(text, <<"g", "a", "n", "t", "t">>)

\* C15: validation returns an object in every case: invalid with the error
\* "Empty diagram code" for a text that is empty after trimming, invalid
\* for a text without any diagram keyword, valid for every other text; prose is
\* invalid and a small graph is valid
C15_Validate ==
    pc = "done" =>
        /\ ret.valid \in BOOLEAN
        /\ Trim(arg) = <<>> => ret = [valid |-> FALSE, error |-> "Empty diagram code"]
        /\ (Trim(arg) # <<>> /\ ~HasDiagramKeyword(arg)) => ret.valid = FALSE
        /\ (Trim(arg) # <<>> /\ HasDiagramKeyword(arg)) =>
               ret = [valid |-> TRUE, error |-> "undefined"]
        /\ arg = <<"j", "u", "s", "t", " ", "s", "o", "m", "e", " ", "p", "r", "o", "s", "e">> => ret.valid = FALSE
        /\ arg = <<"g", "r", "a", "p", "h", " ", "T", "D", NL, "A", "-", "-", ">", "B">> => ret.valid = TRUE

\* the small graph of the claim was validated
C15_Witness ==
    /\ pc = "done"
    /\ arg = <<"g", "r", "a", "p", "h", " ", "T", "D", NL, "A", "-", "-", ">", "B">>
    /\ ret.valid = TRUE

\* ------------------------------------------------ generateMermaidFromJSON
\* bounds of the graph specs: the most nodes and the most edges of a spec
MaxNodes == 2
MaxEdges == 1

\* a property that holds an array, null, or is missing
ArrayOf(items) == [kind |-> "array", items |-> items]
NullArray == [kind |-> "null", items |-> <<>>]
MissingArray == [kind |-> "undefined", items |-> <<>>]

\* the outcome of a call: a returned string or a thrown TypeError
Returned(value) == [threw |-> FALSE, value |-> value]
Thrown == [threw |-> TRUE, value |-> <<>>]

\* cleanLabel that replaces line breaks only and leaves quotes in place
CleanLabel_KeepQuote(text) ==
    IF text = Undefined \/ text = <<>> THEN <<>>
    ELSE Trim(ReplaceChars(text, {NL, CR}, <<" ">>))

\* cleanLabel: an empty or missing text gives '', else quotes and line breaks
\* become spaces and the ends are trimmed
CleanLabel(text) ==
    IF text = Undefined \/ text = <<>> THEN <<>>
    ELSE Trim(ReplaceChars(text, {"\"", NL, CR}, <<" ">>))

\* cleanId that leaves dashes in place
CleanId_KeepDash(id) ==
    [k \in 1..Len(id) |-> IF IsAlnum(id[k]) \/ id[k] = "-" THEN id[k] ELSE "_"]

\* cleanId: id.replace(/[^a-zA-Z0-9]/g, '_') (the caller checks id is a string)
CleanId(id) ==
    [k \in 1..Len(id) |-> IF IsAlnum(id[k]) THEN id[k] ELSE "_"]

\* getShape
GetShape(id, label, shape) ==
    LET safeId == CleanId(id)
        clean == CleanLabel(IF label = Undefined \/ label = <<>> THEN safeId ELSE label)
        q == <<"\"">> \o clean \o <<"\"">>
    IN  CASE shape = <<"r", "o", "u", "n", "d", "e", "d">> -> safeId \o <<"(">> \o q \o <<")">>
          [] shape = <<"c", "i", "r", "c", "l", "e">> -> safeId \o <<"(", "(">> \o q \o <<")", ")">>
          [] shape = <<"d", "i", "a", "m", "o", "n", "d">> -> safeId \o <<"{">> \o q \o <<"}">>
          [] shape = <<"d", "a", "t", "a", "b", "a", "s", "e">> -> safeId \o <<"[", "(">> \o q \o <<")", "]">>
          [] shape = <<"c", "l", "o", "u", "d">> -> safeId \o <<"(", "(">> \o q \o <<")", ")">>
          [] shape = <<"h", "e", "x", "a", "g", "o", "n">> -> safeId \o <<"{", "{">> \o q \o <<"}", "}">>
          [] OTHER -> safeId \o <<"[">> \o q \o <<"]">>

\* getEdge whose default arrow is the plain line
GetEdge_DefaultLine(type, label) ==
    LET clean == IF label = Undefined \/ label = <<>> THEN <<>> ELSE CleanLabel(label)
        labelPart == IF clean # <<>> THEN <<"|", "\"">> \o clean \o <<"\"", "|">> ELSE <<>>
    IN  CASE type = <<"d", "o", "t", "t", "e", "d">> -> <<"-", ".", "-", ">">> \o labelPart
          [] type = <<"t", "h", "i", "c", "k">> -> <<"=", "=", ">">> \o labelPart
          [] type = <<"a", "r", "r", "o", "w">> -> <<"-", "-", ">">> \o labelPart
          [] OTHER -> <<"-", "-", "-">> \o labelPart

\* getEdge
GetEdge(type, label) ==
    LET clean == IF label = Undefined \/ label = <<>> THEN <<>> ELSE CleanLabel(label)
        labelPart == IF clean # <<>> THEN <<"|", "\"">> \o clean \o <<"\"", "|">> ELSE <<>>
    IN  CASE type = <<"d", "o", "t", "t", "e", "d">> -> <<"-", ".", "-", ">">> \o labelPart
          [] type = <<"t", "h", "i", "c", "k">> -> <<"=", "=", ">">> \o labelPart
          [] type = <<"l", "i", "n", "e">> -> <<"-", "-", "-">> \o labelPart
          [] OTHER -> <<"-", "-", ">">> \o labelPart

\* the destructuring default: [] when the property is missing
OrEmptyArray(a) == IF a.kind = "undefined" THEN ArrayOf(<<>>) ELSE a

\* generateMermaidFromJSON: calling .map on null and .replace on a missing id
\* throw a TypeError
GenerateMermaidFromJSON(data) ==
    LET direction == IF data.direction = Undefined THEN <<"T", "D">> ELSE data.direction
        nodes == OrEmptyArray(data.nodes)
        edges == OrEmptyArray(data.edges)
        nodeLine(n) == <<" ", " ">> \o GetShape(n.id, n.label, n.shape)
        edgeLine(e) == <<" ", " ">> \o CleanId(e.from) \o <<" ">>
                           \o GetEdge(e.type, e.label) \o <<" ">> \o CleanId(e.to)
    IN  IF \/ nodes.kind = "null"
           \/ \E i \in 1..Len(nodes.items) : nodes.items[i].id = Undefined
           \/ edges.kind = "null"
           \/ \E i \in 1..Len(edges.items) :
                  edges.items[i].from = Undefined \/ edges.items[i].to = Undefined
        THEN Thrown
        ELSE Returned(Join(<<<<"g", "r", "a", "p", "h", " ">> \o direction>>
                           \o [i \in 1..Len(nodes.items) |-> nodeLine(nodes.items[i])]
                           \o [i \in 1..Len(edges.items) |-> edgeLine(edges.items[i])]))

\* the graph specs: ids with a dash, with an underscore, and missing; labels
\* plain, missing, and with a quote and a line break
SpecNodes ==
    {[id |-> i, label |-> l.label, shape |-> l.shape] :
        i \in {<<"a", "-", "1">>, <<"a", "_", "1">>, Undefined},
        l \in {[label |-> <<"S", "t", "a", "r", "t">>, shape |-> Undefined],
               [label |-> Undefined, shape |-> <<"c", "i", "r", "c", "l", "e">>],
               [label |-> <<" ", "\"", "x", NL>>, shape |-> <<"b", "o", "g", "u", "s">>]}}

SpecEdges ==
    {[from |-> e.from, to |-> e.to, label |-> l.label, type |-> l.type] :
        e \in {[from |-> <<"a", "-", "1">>, to |-> <<"a", "-", "1">>],
               [from |-> <<"a", "-", "1">>, to |-> <<"a", "_", "1">>],
               [from |-> Undefined, to |-> <<"a", "-", "1">>]},
        l \in {[label |-> Undefined, type |-> Undefined],
               [label |-> <<"L">>, type |-> <<"d", "o", "t", "t", "e", "d">>],
               [label |-> <<"\"">>, type |-> <<"b", "o", "g", "u", "s">>]}}

GraphSpecs ==
    [direction : {Undefined, <<"L", "R">>},
     nodes : {NullArray, MissingArray} \cup {ArrayOf(ns) : ns \in UNION {[1..n -> SpecNodes] : n \in 0..MaxNodes}},
     edges : {NullArray, MissingArray} \cup {ArrayOf(es) : es \in UNION {[1..n -> SpecEdges] : n \in 0..MaxEdges}}]

GenerateInit ==
    /\ RepairIdle
    /\ pc = "call"
    /\ op = "generateMermaidFromJSON"
    /\ arg \in GraphSpecs
    /\ ret = <<>>

CallGenerateMermaidFromJSON ==
    /\ pc = "call"
    /\ op = "generateMermaidFromJSON"
    /\ ret' = GenerateMermaidFromJSON(arg)
    /\ pc' = "done"
    /\ UNCHANGED <<content, lines, pass, changesMade, step, result, op, arg>>

GenerateSpec == GenerateInit /\ [][CallGenerateMermaidFromJSON]_vars

\* ------------------------------------------------ claims on the generator
GenReturned == pc = "done" /\ op = "generateMermaidFromJSON" /\ ~ret.threw
GenLines == Split(ret.value)
GenNodes == OrEmptyArray(arg.nodes).items
GenEdges == OrEmptyArray(arg.edges).items

\* the id the contract asks for: same length, each non-alphanumeric character
\* replaced by one underscore
IsCleanedId(id, out) ==
    /\ Len(out) = Len(id)
    /\ \A k \in 1..Len(id) : out[k] = (IF IsAlnum(id[k]) THEN id[k] ELSE "_")
    /\ \A k \in 1..Len(out) : IsWord(out[k])

\* the id of a node line: what follows the indent up to the first bracket
RECURSIVE UpTo(_, _)
UpTo(s, stops) ==
    IF s = <<>> \/ Head(s) \in stops THEN <<>> ELSE <<Head(s)>> \o UpTo(Tail(s), stops)

RECURSIVE AfterLast(_, _)
AfterLast(s, c) ==
    IF s = <<>> \/ s[Len(s)] = c THEN <<>>
    ELSE AfterLast(SubSeq(s, 1, Len(s) - 1), c) \o <<s[Len(s)]>>

EmittedNodeId(line) == UpTo(SubSeq(line, 3, Len(line)), {"[", "(", "{"})
EmittedFrom(line) == UpTo(SubSeq(line, 3, Len(line)), {" "})
EmittedTo(line) == AfterLast(line, " ")

ArrowTokens == {<<"-", "-", ">">>, <<"-", ".", "-", ">">>, <<"=", "=", ">">>, <<"-", "-", "-">>}

\* an edge line: indent, from id, space, an arrow (with its label), space, to id
IsEdgeLine(line, e) ==
    LET from == CleanId(e.from)
        to == CleanId(e.to)
        mid == SubSeq(line, 4 + Len(from), Len(line) - Len(to) - 1)
    IN  /\ line = <<" ", " ">> \o from \o <<" ">> \o mid \o <<" ">> \o to
        /\ \E a \in ArrowTokens : StartsWith(mid, a)
        /\ ~Includes(mid, <<" ">>)

IsNodeLine(line, n) ==
    /\ StartsWith(line, <<" ", " ">> \o CleanId(n.id))
    /\ Len(line) > 2 + Len(n.id)
    /\ line[3 + Len(n.id)] \in {"[", "(", "{"}

C16_NeverRaises ==
    (pc = "done" /\ op = "generateMermaidFromJSON") => ~ret.threw

\* ------------------------------------------------ regular expressions
\* A regular expression is a tree of nodes; Match runs it the way the engine
\* does: leftmost alternative first, greedy quantifiers longest first, lazy
\* ones shortest first, backtracking on failure.
ReNode(t, s, rs, g) == [t |-> t, s |-> s, rs |-> rs, g |-> g]

In(set) == ReNode("in", set, <<>>, 0)
NotIn(set) == ReNode("notin", set, <<>>, 0)
\* a sequence inside a sequence is the longer sequence: (ab)c is abc
RECURSIVE Flat(_)
Flat(rs) ==
    IF Len(rs) = 0 THEN <<>>
    ELSE (IF rs[1].t = "cat" THEN rs[1].rs ELSE <<rs[1]>>) \o Flat(Tail(rs))
Cat(rs) == ReNode("cat", {}, Flat(rs), 0)
Alt(rs) == ReNode("alt", {}, rs, 0)
Star(r) == ReNode("star", {}, <<r>>, 1)
LazyStar(r) == ReNode("star", {}, <<r>>, 0)
Plus(r) == Cat(<<r, Star(r)>>)
LazyPlus(r) == Cat(<<r, LazyStar(r)>>)
Opt(r) == Alt(<<r, Cat(<<>>)>>)
Group(k, r) == Cat(<<ReNode("open", {}, <<>>, k), r, ReNode("close", {}, <<>>, k)>>)
NotAhead(r) == ReNode("notahead", {}, <<r>>, 0)
Bol == ReNode("bol", {}, <<>>, 0)
Eol == ReNode("eol", {}, <<>>, 0)
Lit(str) == Cat([i \in 1..Len(str) |-> In({str[i]})])
Dot == NotIn({NL, CR})
Ws == In({" ", "\t", NL, CR})
IdCharRe == In(Letters \cup Digits \cup {"_", "-"})

MatchFail == [ok |-> FALSE, pos |-> 0, caps |-> <<>>]
NoCaps == <<<<0, 0>>, <<0, 0>>, <<0, 0>>>>

MaxOf(S) == CHOOSE x \in S : \A y \in S : y <= x

\* a character class (the body of every quantifier here) against a character
ClassHas(r, c) == IF r.t = "in" THEN c \in r.s ELSE c \notin r.s

\* how many characters from position i on are in the class
RunLength(r, str, i) ==
    MaxOf({k \in 0..(Len(str) - i + 1) : \A j \in i..(i + k - 1) : ClassHas(r, str[j])})

\* the match of the nodes on the stack, one after the other, at position i; a
\* quantifier takes the longest run (greedy) or the shortest (lazy) after which
\* the rest of the stack matches
RECURSIVE Match(_, _, _, _)
Match(stack, str, i, caps) ==
    CASE Len(stack) = 0 -> [ok |-> TRUE, pos |-> i, caps |-> caps]
      [] stack[1].t = "in" ->
           IF i <= Len(str) /\ str[i] \in stack[1].s
           THEN Match(Tail(stack), str, i + 1, caps) ELSE MatchFail
      [] stack[1].t = "notin" ->
           IF i <= Len(str) /\ str[i] \notin stack[1].s
           THEN Match(Tail(stack), str, i + 1, caps) ELSE MatchFail
      [] stack[1].t = "cat" -> Match(stack[1].rs \o Tail(stack), str, i, caps)
      [] stack[1].t = "alt" ->
           IF Len(stack[1].rs) = 0 THEN MatchFail
           ELSE LET m == Match(<<Head(stack[1].rs)>> \o Tail(stack), str, i, caps)
                IN  IF m.ok THEN m
                    ELSE Match(<<Alt(Tail(stack[1].rs))>> \o Tail(stack), str, i, caps)
      [] stack[1].t = "star" ->
           LET run == RunLength(stack[1].rs[1], str, i)
               oks == {k \in 0..run : Match(Tail(stack), str, i + k, caps).ok}
           IN  IF oks = {} THEN MatchFail
               ELSE Match(Tail(stack), str,
                          i + (IF stack[1].g = 1 THEN MaxOf(oks) ELSE Min(oks)), caps)
      [] stack[1].t = "open" ->
           Match(Tail(stack), str, i, [caps EXCEPT ![stack[1].g] = <<i, i>>])
      [] stack[1].t = "close" ->
           Match(Tail(stack), str, i,
                 [caps EXCEPT ![stack[1].g] = <<caps[stack[1].g][1], i>>])
      [] stack[1].t = "notahead" ->
           IF Match(stack[1].rs, str, i, caps).ok THEN MatchFail
           ELSE Match(Tail(stack), str, i, caps)
      [] stack[1].t = "bol" ->
           IF i = 1 THEN Match(Tail(stack), str, i, caps) ELSE MatchFail
      [] stack[1].t = "eol" ->
           IF i = Len(str) + 1 THEN Match(Tail(stack), str, i, caps) ELSE MatchFail

\* a successful match m that started at position j
Found(j, m) == [ok |-> TRUE, start |-> j, pos |-> m.pos, caps |-> m.caps]
NotFound == [ok |-> FALSE, start |-> 0, pos |-> 0, caps |-> <<>>]

\* the match at the least of the start positions
FirstFound(re, str, starts) ==
    IF starts = {} THEN NotFound
    ELSE Found(Min(starts), Match(<<re>>, str, Min(starts), NoCaps))

\* the first match that starts at position i or later
FindFrom(re, str, i) ==
    FirstFound(re, str, {j \in i..(Len(str) + 1) : Match(<<re>>, str, j, NoCaps).ok})

\* the matches a global regex finds, left to right, without overlap
RECURSIVE MatchAllFrom(_, _, _)
MatchAllAfter(re, str, m) ==
    IF ~m.ok THEN <<>>
    ELSE <<m>> \o MatchAllFrom(re, str, IF m.pos = m.start THEN m.pos + 1 ELSE m.pos)

MatchAllFrom(re, str, i) == MatchAllAfter(re, str, FindFrom(re, str, i))

MatchAll(re, str) == MatchAllFrom(re, str, 1)

\* the text of capture group k of match m
Cap(str, m, k) == SubSeq(str, m.caps[k][1], m.caps[k][2] - 1)
Matched(str, m) == SubSeq(str, m.start, m.pos - 1)

\* String.prototype.replace(regex /g, callback): str with match ms[k]
\* replaced by reps[k], what the callback returned for it
RECURSIVE Splice(_, _, _, _, _)
Splice(str, ms, reps, k, from) ==
    IF k > Len(ms) THEN SubSeq(str, from, Len(str))
    ELSE SubSeq(str, from, ms[k].start - 1) \o reps[k]
             \o Splice(str, ms, reps, k + 1, ms[k].pos)

\* ------------------------------------------------ sanitizeMermaidCode
EndsWith(s, suf) ==
    Len(s) >= Len(suf) /\ SubSeq(s, Len(s) - Len(suf) + 1, Len(s)) = suf

\* first index of sub in s, 0 when absent (indexOf + 1)
IndexOf(s, sub) ==
    IF Includes(s, sub)
    THEN Min({i \in 1..(Len(s) - Len(sub) + 1) : SubSeq(s, i, i + Len(sub) - 1) = sub})
    ELSE 0

\* replace(/\r\n/g, '\n')
NormalizeNewlines(s) ==
    Kept([i \in 1..Len(s) |->
             IF s[i] = CR /\ i < Len(s) /\ s[i + 1] = NL THEN Dropped ELSE s[i]])

\* the line up to its first %%
StripComment(line) ==
    LET commentIndex == IndexOf(line, <<"%", "%">>)
    IN  IF commentIndex > 0 THEN SubSeq(line, 1, commentIndex - 1) ELSE line

\* split(/\s+/)
RECURSIVE SplitWhitespace(_)
SplitWhitespace(s) ==
    IF \A i \in 1..Len(s) : ~IsWhitespace(s[i]) THEN <<s>>
    ELSE LET k == Min({i \in 1..Len(s) : IsWhitespace(s[i])})
             after == SubSeq(s, k, Len(s))
         IN  <<SubSeq(s, 1, k - 1)>>
                 \o SplitWhitespace(SubSeq(after, LeadingWhitespace(after) + 1, Len(after)))

Directives == {<<"c", "l", "a", "s", "s", "D", "e", "f">>, <<"c", "l", "a", "s", "s", " ">>, <<"c", "l", "i", "c", "k", " ">>, <<"s", "t", "y", "l", "e", " ">>, <<"l", "i", "n", "k", "S", "t", "y", "l", "e", " ">>}
IsDirective(trimmed) == \E d \in Directives : StartsWith(trimmed, d)

\* subgraph: the title is quoted and sanitized unless it starts with a quote
SubgraphLine(trimmed) ==
    LET title == Trim(SubSeq(trimmed, 10, Len(trimmed)))
    IN  IF ~StartsWith(title, <<"\"">>)
        THEN <<"s", "u", "b", "g", "r", "a", "p", "h", " ", "\"">> \o SanitizeMermaidText(title) \o <<"\"">>
        ELSE trimmed

\* /^(graph|flowchart)\s/
IsDeclaration(trimmed) ==
    \E kw \in {<<"g", "r", "a", "p", "h">>, <<"f", "l", "o", "w", "c", "h", "a", "r", "t">>} :
        /\ StartsWith(trimmed, kw)
        /\ Len(trimmed) > Len(kw)
        /\ IsWhitespace(trimmed[Len(kw) + 1])

ValidDirs == {<<"T", "B">>, <<"T", "D">>, <<"B", "T">>, <<"R", "L">>, <<"L", "R">>}

\* graph/flowchart declaration
DeclarationLine(trimmed) ==
    LET noSemi == IF EndsWith(trimmed, <<";">>) THEN SubSeq(trimmed, 1, Len(trimmed) - 1)
                  ELSE trimmed
        parts == SplitWhitespace(noSemi)
        dir == IF parts[2] = <<>> THEN <<"T", "D">> ELSE parts[2]
        semi == IndexOf(dir, <<";">>)
        cleanDir == IF semi > 0 THEN SubSeq(dir, 1, semi - 1) \o SubSeq(dir, semi + 1, Len(dir))
                    ELSE dir
        safeDir == IF cleanDir \in ValidDirs THEN cleanDir ELSE <<"T", "D">>
    IN  parts[1] \o <<" ">> \o safeDir

ArrowPatterns == {<<"-", "-", ">">>, <<"-", "-", "-">>, <<".", "-", ">">>, <<"=", "=", ">">>, <<"-", "-">>}
HasArrow(trimmed) == \E p \in ArrowPatterns : Includes(trimmed, p)

\* (?!"|')
NotQuoteAhead == NotAhead(In({"\"", "'"}))

\* /(\||[=-]+>?\||[.-]+>?\|)\s*(?!"|')(.*?)\s*(\|)/g
PipeLabelRe ==
    Cat(<<Group(1, Alt(<<Lit(<<"|">>),
                         Cat(<<Plus(In({"=", "-"})), Opt(Lit(<<">">>)), Lit(<<"|">>)>>),
                         Cat(<<Plus(In({".", "-"})), Opt(Lit(<<">">>)), Lit(<<"|">>)>>)>>)),
          Star(Ws), NotQuoteAhead, Group(2, LazyStar(Dot)), Star(Ws),
          Group(3, Lit(<<"|">>))>>)

PipeLabelCallback(str, m) ==
    LET inner == Cap(str, m, 2)
    IN  IF Trim(inner) = <<>> THEN Matched(str, m)
        ELSE Cap(str, m, 1) \o <<"\"">> \o SanitizeMermaidText(inner) \o <<"\"">>
                 \o Cap(str, m, 3)

\* /(--+|\.\.+|==+)\s+(?!"|')(.+?)\s+(--+>?|\.\.+>?|==+>?)/g
SpaceLabelRe ==
    Cat(<<Group(1, Alt(<<Cat(<<Lit(<<"-">>), Plus(In({"-"}))>>),
                         Cat(<<Lit(<<".">>), Plus(In({"."}))>>),
                         Cat(<<Lit(<<"=">>), Plus(In({"="}))>>)>>)),
          Plus(Ws), NotQuoteAhead, Group(2, LazyPlus(Dot)), Plus(Ws),
          Group(3, Alt(<<Cat(<<Lit(<<"-">>), Plus(In({"-"})), Opt(Lit(<<">">>))>>),
                         Cat(<<Lit(<<".">>), Plus(In({"."})), Opt(Lit(<<">">>))>>),
                         Cat(<<Lit(<<"=">>), Plus(In({"="})), Opt(Lit(<<">">>))>>)>>))>>)

SpaceLabelCallback(str, m) ==
    LET inner == Cap(str, m, 2)
    IN  IF Trim(inner) = <<>> THEN Matched(str, m)
        ELSE IF \E i \in 1..Len(inner) : inner[i] \in {"[", "(", "{"}
        THEN Matched(str, m)
        ELSE Cap(str, m, 1) \o <<" ", "\"">> \o SanitizeMermaidText(inner)
                 \o <<"\"", " ">> \o Cap(str, m, 3)

\* /(-->|\.->|==>)\s*"([^"]+)"(?!\s*[)\]}>]|\s*--|\s*\.\.|\s*==)/g
IncompleteNodeRe ==
    Cat(<<Group(1, Alt(<<Lit(<<"-", "-", ">">>), Lit(<<".", "-", ">">>), Lit(<<"=", "=", ">">>)>>)),
          Star(Ws), Lit(<<"\"">>), Group(2, Plus(NotIn({"\""}))), Lit(<<"\"">>),
          NotAhead(Alt(<<Cat(<<Star(Ws), In({")", "]", "}", ">"})>>),
                         Cat(<<Star(Ws), Lit(<<"-", "-">>)>>),
                         Cat(<<Star(Ws), Lit(<<".", ".">>)>>),
                         Cat(<<Star(Ws), Lit(<<"=", "=">>)>>)>>))>>)

IncompleteNodeCallback(str, m) ==
    LET safeLabel == SanitizeMermaidText(Cap(str, m, 2))
        alnum == SelectSeq(safeLabel, IsAlnum)
        nodeId == <<"N">> \o SubSeq(alnum, 1, Min({10, Len(alnum)}))
    IN  Cap(str, m, 1) \o <<" ">> \o nodeId \o <<"[", "\"">> \o safeLabel \o <<"\"", "]">>

\* the shapes, in the order they are tried
Shapes ==
    <<[o |-> <<"[", "(">>, c |-> <<")", "]">>],
      [o |-> <<"[", "[">>, c |-> <<"]", "]">>],
      [o |-> <<"(", "(">>, c |-> <<")", ")">>],
      [o |-> <<"{", "{">>, c |-> <<"}", "}">>],
      [o |-> <<"[", "/">>, c |-> <<"/", "]">>],
      [o |-> <<"[", "\\">>, c |-> <<"\\", "]">>],
      [o |-> <<"[", "/">>, c |-> <<"\\", "]">>],
      [o |-> <<"[", "\\">>, c |-> <<"/", "]">>],
      [o |-> <<"(">>, c |-> <<")">>],
      [o |-> <<"[">>, c |-> <<"]">>],
      [o |-> <<"{">>, c |-> <<"}">>],
      [o |-> <<">">>, c |-> <<"]">>]>>

\* new RegExp(`([\\w-]+)\\s*${shape.start}(${quantifier})${shape.end}`, 'g')
ShapeRe(shape, hasArrow) ==
    Cat(<<Group(1, Plus(IdCharRe)), Star(Ws), Lit(shape.o),
          Group(2, IF hasArrow THEN LazyStar(Dot) ELSE Star(Dot)), Lit(shape.c)>>)

\* the label of a shape: trimmed, outer quotes removed, sanitized
ShapeText(inner) ==
    LET text == Trim(inner)
        unquoted == IF StartsWith(text, <<"\"">>) /\ EndsWith(text, <<"\"">>)
                 THEN SubSeq(text, 2, Len(text) - 1) ELSE text
    IN  SanitizeMermaidText(unquoted)

\* the callback of processedLine.replace
ShapeCallback(str, m, shape) ==
    Cap(str, m, 1) \o shape.o \o <<"\"">> \o ShapeText(Cap(str, m, 2)) \o <<"\"">> \o shape.c

ReplaceShapes(line, shape, ms) ==
    Splice(line, ms, [j \in 1..Len(ms) |-> ShapeCallback(line, ms[j], shape)], 1, 1)

\* processedLine.replace(regex, callback) for one shape; the regex holds the
\* shape's opening token, so a line without the token has no match
ApplyShape(line, shape, hasArrow) ==
    IF ~Includes(line, shape.o) THEN line
    ELSE ReplaceShapes(line, shape, MatchAll(ShapeRe(shape, hasArrow), line))

\* for (const shape of shapes): the shapes from the k-th on, each applied to
\* the result of the one before
RECURSIVE ApplyShapes(_, _, _)
ApplyShapes(line, k, hasArrow) ==
    IF k > Len(Shapes) \/ line = <<>> THEN line
    ELSE ApplyShapes(ApplyShape(line, Shapes[k], hasArrow), k + 1, hasArrow)

\* /^([\w-]+)\s+(.+)$/
FallbackRe ==
    Cat(<<Bol, Group(1, Plus(IdCharRe)), Plus(Ws), Group(2, Plus(Dot)), Eol>>)

\* the three replace calls on a line that has an arrow
ReplacePipeLabels(trimmed, ms) ==
    Splice(trimmed, ms, [k \in 1..Len(ms) |-> PipeLabelCallback(trimmed, ms[k])], 1, 1)

PipeLabels(trimmed) ==
    IF trimmed = <<>> THEN trimmed
    ELSE ReplacePipeLabels(trimmed, MatchAll(PipeLabelRe, trimmed))

ReplaceSpaceLabels(trimmed, ms) ==
    Splice(trimmed, ms, [k \in 1..Len(ms) |-> SpaceLabelCallback(trimmed, ms[k])], 1, 1)

SpaceLabels(trimmed) ==
    IF trimmed = <<>> THEN trimmed
    ELSE ReplaceSpaceLabels(trimmed, MatchAll(SpaceLabelRe, trimmed))

ReplaceIncompleteNodes(trimmed, ms) ==
    Splice(trimmed, ms, [k \in 1..Len(ms) |-> IncompleteNodeCallback(trimmed, ms[k])], 1, 1)

IncompleteNodes(trimmed) ==
    IF trimmed = <<>> THEN trimmed
    ELSE ReplaceIncompleteNodes(trimmed, MatchAll(IncompleteNodeRe, trimmed))

EdgeLabels(trimmed) == IncompleteNodes(SpaceLabels(PipeLabels(trimmed)))

\* the fallback for plain text "ID Label": m is the match of the fallback regex
FallbackLine(labelled, processedLine, m) ==
    IF m.ok /\ Cap(labelled, m, 1) # <<"e", "n", "d">>
    THEN Cap(labelled, m, 1) \o <<"[", "\"">>
             \o SanitizeMermaidText(Trim(Cap(labelled, m, 2))) \o <<"\"", "]">>
    ELSE processedLine

\* the end of the callback: the line after the shapes, or the fallback
ShapesOrFallback(labelled, hasArrow, processedLine) ==
    IF processedLine = labelled /\ ~hasArrow
    THEN FallbackLine(labelled, processedLine, Match(<<FallbackRe>>, labelled, 1, NoCaps))
    ELSE processedLine

\* the callback from the shapes on: labelled is the line after the edge labels
NodeLine(labelled, hasArrow) ==
    ShapesOrFallback(labelled, hasArrow, ApplyShapes(labelled, 1, hasArrow))

\* the callback after the trim
TrimmedLine(trimmed) ==
    IF trimmed = <<>> THEN <<>>
    ELSE IF IsDirective(trimmed) THEN trimmed
    ELSE IF StartsWith(trimmed, <<"s", "u", "b", "g", "r", "a", "p", "h", " ">>)
    THEN SubgraphLine(trimmed)
    ELSE IF IsDeclaration(trimmed) THEN DeclarationLine(trimmed)
    ELSE IF HasArrow(trimmed) THEN NodeLine(EdgeLabels(trimmed), TRUE)
    ELSE NodeLine(trimmed, FALSE)

\* the callback of lines.map
ProcessLine(line) == TrimmedLine(Trim(line))

\* split('\n').map(line => ...) of step 2: the lines without their comments
StripComments(codeLines) ==
    [i \in 1..Len(codeLines) |-> StripComment(codeLines[i])]

\* lines.map(line => ...) of step 3
ProcessLines(codeLines) ==
    [i \in 1..Len(codeLines) |-> ProcessLine(codeLines[i])]

SanitizeMermaidCode(code) ==
    Join(SelectSeq(ProcessLines(Split(Join(StripComments(Split(NormalizeNewlines(code)))))),
                   LAMBDA l : l # <<>>))

\* the lines of the diagrams given to sanitizeMermaidCode: declarations, edges
\* with pipe and space labels (plain, quoted, with unsafe characters), subgraph
\* titles, shapes, a directive, a comment before a CRLF, plain text, end
CodeLines ==
    {<<>>,
     <<"g", "r", "a", "p", "h", " ", "T", "D">>,
     <<"g", "r", "a", "p", "h", " ", "L", "R", ";">>,
     <<"f", "l", "o", "w", "c", "h", "a", "r", "t", " ", "X", "X">>,
     <<"g", "r", "a", "p", "h">>,
     <<"A", "[", "S", "t", "a", "r", "t", "]", " ", "-", "-", ">", " ", "B", "[", "E", "n", "d", "]">>,
     <<" ", " ", "A", " ", "-", "-", " ", "\"", "s", "o", "m", "e", " ", BT, "l", "a", "b", "e", "l", "\"", " ", "-", "-", ">", " ", "B", "[", "\"", "N", "o", "d", "e", " ", "B", "\"", "]">>,
     <<"A", " ", "-", "-", ">", "|", "a", "<", "b", "|", " ", "B">>,
     <<"A", " ", "-", "-", ">", "|", "\"", "a", BT, "b", "\"", "|", " ", "B">>,
     <<"s", "u", "b", "g", "r", "a", "p", "h", " ", "\"", "a", BT, "b", "\"">>,
     <<"s", "u", "b", "g", "r", "a", "p", "h", " ", "M", "y", "/", "G", "r", "o", "u", "p">>,
     <<"A", " ", "-", "-", " ", "g", "o", BT, "o", "n", " ", "-", "-", ">", " ", "B">>,
     <<"A", " ", "-", "-", ">", " ", "\"", "L", "a", "b", "\"">>,
     <<"A", " ", "s", "o", "m", "e", " ", "t", "e", "x", "t">>,
     <<"c", "l", "a", "s", "s", "D", "e", "f", " ", "x", " ", "f", "i", "l", "l", ":", "#", "f">>,
     <<" ", "B", "{", "\"", "q", "\"", "}", "%", "%", " ", "n", "o", "t", "e", CR>>,
     <<"e", "n", "d">>}

\* the most lines of a diagram
MaxCodeLines == 2

CodeTexts ==
    {Join(ls) : ls \in UNION {[1..n -> CodeLines] : n \in 1..MaxCodeLines}}

CodeInit ==
    /\ RepairIdle
    /\ pc = "call"
    /\ op = "sanitizeMermaidCode"
    /\ arg \in CodeTexts
    /\ ret = <<>>

CallSanitizeMermaidCode ==
    /\ pc = "call"
    /\ op = "sanitizeMermaidCode"
    /\ ret' = SanitizeMermaidCode(arg)
    /\ pc' = "done"
    /\ UNCHANGED <<content, lines, pass, changesMade, step, result, op, arg>>

CodeSpec == CodeInit /\ [][CallSanitizeMermaidCode]_vars

\* ------------------------------------------------ claims on the sanitizer
CodeReturned == pc = "done" /\ op = "sanitizeMermaidCode"
OutCodeLines == Split(ret)

\* a label as the dialect wants it: in double quotes, safe characters inside
QuotedSafe(t) ==
    /\ Len(t) >= 2
    /\ t[1] = "\"" /\ t[Len(t)] = "\""
    /\ \A i \in 2..(Len(t) - 1) : IsSafeChar(t[i])

\* the labels of an output line: the title after subgraph, the texts between
\* two pipes, between an edge opener and its arrow, and inside [ ] or { }
AnyPipeLabelRe == Cat(<<Lit(<<"|">>), Group(1, LazyStar(Dot)), Lit(<<"|">>)>>)

AnySpaceLabelRe ==
    Cat(<<Alt(<<Cat(<<Lit(<<"-">>), Plus(In({"-"}))>>),
                Cat(<<Lit(<<".">>), Plus(In({"."}))>>),
                Cat(<<Lit(<<"=">>), Plus(In({"="}))>>)>>),
          Plus(Ws), Group(1, LazyPlus(Dot)), Plus(Ws),
          Alt(<<Cat(<<Lit(<<"-">>), Plus(In({"-"})), Opt(Lit(<<">">>))>>),
                Cat(<<Lit(<<".">>), Plus(In({"."})), Opt(Lit(<<">">>))>>),
                Cat(<<Lit(<<"=">>), Plus(In({"="})), Opt(Lit(<<">">>))>>)>>)>>)

AnyNodeLabelRe(o, c) ==
    Cat(<<Plus(IdCharRe), Lit(<<o>>), Group(1, LazyStar(Dot)), Lit(<<c>>)>>)

IsNodeDefinition(t) == \E i \in 1..Len(t) : t[i] \in {"[", "(", "{"}
IsCompoundShape(t) == t # <<>> /\ t[1] \in {"[", "(", "{", "/", "\\"}

LabelsOf(l, re) ==
    LET ms == MatchAll(re, l) IN {Cap(l, ms[k], 1) : k \in 1..Len(ms)}

LineLabelsQuotedSafe(l) ==
    /\ StartsWith(l, <<"s", "u", "b", "g", "r", "a", "p", "h", " ">>) => QuotedSafe(SubSeq(l, 10, Len(l)))
    /\ HasArrow(l) =>
           /\ \A t \in LabelsOf(l, AnyPipeLabelRe) : QuotedSafe(t)
           /\ \A t \in LabelsOf(l, AnySpaceLabelRe) : IsNodeDefinition(t) \/ QuotedSafe(t)
    /\ ~IsDirective(l) =>
           /\ \A t \in LabelsOf(l, AnyNodeLabelRe("[", "]")) : IsCompoundShape(t) \/ QuotedSafe(t)
           /\ \A t \in LabelsOf(l, AnyNodeLabelRe("{", "}")) : IsCompoundShape(t) \/ QuotedSafe(t)

\* C12: in the output of sanitizeMermaidCode every subgraph title, every
\* pipe-delimited or space-delimited edge label and every bracketed node label
\* is in double quotes and holds safe-class characters only
C12_LabelsQuotedSafe ==
    CodeReturned => \A i \in 1..Len(OutCodeLines) : LineLabelsQuotedSafe(OutCodeLines[i])

Scenario3 == <<"g", "r", "a", "p", "h", " ", "T", "D", NL, " ", " ", "A", " ", "-", "-", " ", "\"", "s", "o", "m", "e", " ", BT, "l", "a", "b", "e", "l", "\"", " ", "-", "-", ">", " ", "B", "[", "\"", "N", "o", "d", "e", " ", "B", "\"", "]">>

\* C17: for the edge line A -- "some label" --> B["Node B"] whose quoted label
\* holds a backtick, the output line has no backtick, keeps the label quoted,
\* and keeps the ids, both arrow tokens and the node definition B["Node B"]
C17_BacktickStripped ==
    (CodeReturned /\ arg = Scenario3) =>
        /\ Len(OutCodeLines) = 2
        /\ ~Includes(OutCodeLines[2], <<BT>>)
        /\ StartsWith(OutCodeLines[2], <<"A", " ", "-", "-", " ", "\"">>)
        /\ Includes(OutCodeLines[2], <<"\"", "s", "o", "m", "e", " ", "l", "a", "b", "e", "l", "\"">>)
        /\ EndsWith(OutCodeLines[2], <<"\"", " ", "-", "-", ">", " ", "B", "[", "\"", "N", "o", "d", "e", " ", "B", "\"", "]">>)

\* ------------------------------------------------ claims on the unclosed repair
\* the fence lines of the pass about to run and the opener its walk leaves open
PassFences == FenceLines(lines)
UnclosedOpener == Walk(PassFences).currentBlockStartFence

\* the later fence lines with no info string, shorter than the open opener
ShorterLater ==
    {k \in 1..Len(PassFences) :
        /\ PassFences[k].index > UnclosedOpener.index
        /\ PassFences[k].info = <<>>
        /\ PassFences[k].length < UnclosedOpener.length}

\* the later fence lines that can close the open opener
CloserLater ==
    {k \in 1..Len(PassFences) :
        /\ PassFences[k].index > UnclosedOpener.index
        /\ PassFences[k].info = <<>>
        /\ PassFences[k].length >= UnclosedOpener.length}

SyntheticCloser(ls, opener) ==
    SubSeq(ls[opener.index], 1, LeadingWhitespace(ls[opener.index])) \o Repeat(opener.length)

\* C18 as claimed: when the walk leaves an opener of length n open and a later
\* fence line with no info string has fewer than n backticks, the pass lengthens
\* the first such line to n backticks, keeping its indentation, and appends
\* nothing
C18_ShorterLengthened ==
    [][(pc = "loop" /\ UnclosedOpener # Null /\ ShorterLater # {}) =>
          LET f == PassFences[Min(ShorterLater)]
          IN  /\ Len(lines') = Len(lines)
              /\ lines'[f.index] =
                     SubSeq(lines[f.index], 1, LeadingWhitespace(lines[f.index]))
                         \o Repeat(UnclosedOpener.length)]_vars

\* C18 amended: in that case the pass leaves the shorter line, like every
\* existing line, as it is and appends a closing line of n backticks
C18_ShorterKept ==
    [][(pc = "loop" /\ UnclosedOpener # Null /\ ShorterLater # {}) =>
          lines' = Append(lines, SyntheticCloser(lines, UnclosedOpener))]_vars

C18_Witness ==
    LET opener == Walk(FenceLines(InLines)).currentBlockStartFence
    IN  /\ pass = 1 /\ step = "unclosed"
        /\ opener # Null
        /\ \E k \in (opener.index + 1)..Len(InLines) :
               /\ FenceOf(InLines[k], k) # Null
               /\ FenceOf(InLines[k], k).info = <<>>
               /\ FenceOf(InLines[k], k).length < opener.length
               /\ lines[k] = InLines[k]
        /\ Len(lines) = Len(InLines) + 1

\* C19: when the walk leaves an opener open and no later fence line can close
\* it, the pass appends exactly one last line, the opener's leading whitespace
\* followed by as many backticks as the opener and nothing else, and changes no
\* existing line
C19_SyntheticCloser ==
    [][(pc = "loop" /\ UnclosedOpener # Null /\ CloserLater = {}) =>
          /\ Len(lines') = Len(lines) + 1
          /\ SubSeq(lines', 1, Len(lines)) = lines
          /\ lines'[Len(lines')] = SyntheticCloser(lines, UnclosedOpener)
          /\ step' = "unclosed"]_vars

C19_Witness ==
    /\ pass = 1 /\ step = "unclosed"
    /\ Walk(FenceLines(InLines)).currentBlockStartFence.raw = <<" ">> \o Repeat(5)
    /\ lines = Append(InLines, <<" ">> \o Repeat(5))

\* ------------------------------------------------ claims on the pairing walk
\* C20: in every pass each matched block's closer is the first fence line after
\* its opener with no info string and at least the opener's backticks; a fence
\* line with an info string never closes, and a shorter fence line with no info
\* string inside an open block is content
C20_PairingRule ==
    pc = "loop" =>
        LET blocks == Walk(PassFences).blocks
        IN  \A b \in 1..Len(blocks) :
                LET opener == FenceOf(lines[blocks[b].start], blocks[b].start)
                    closer == FenceOf(lines[blocks[b].end], blocks[b].end)
                IN  /\ opener # Null /\ closer # Null
                    /\ blocks[b].start < blocks[b].end
                    /\ blocks[b].fenceLength = opener.length
                    /\ closer.info = <<>>
                    /\ closer.length >= opener.length
                    /\ \A k \in (blocks[b].start + 1)..(blocks[b].end - 1) :
                           LET f == FenceOf(lines[k], k)
                           IN  f # Null => (f.info # <<>> \/ f.length < opener.length)

C20_Witness ==
    /\ pc = "loop"
    /\ \E b \in 1..Len(Walk(PassFences).blocks) :
           LET blk == Walk(PassFences).blocks[b]
           IN  /\ \E k \in (blk.start + 1)..(blk.end - 1) :
                      /\ FenceOf(lines[k], k) # Null
                      /\ FenceOf(lines[k], k).info = <<>>
                      /\ FenceOf(lines[k], k).length < blk.fenceLength
               /\ \E k \in (blk.start + 1)..(blk.end - 1) :
                      /\ FenceOf(lines[k], k) # Null
                      /\ FenceOf(lines[k], k).info # <<>>

\* ------------------------------------------- claims on the fragmentation repair
PassBlocks == Walk(PassFences).blocks

\* the block's next marker exists and is no opener of a matched block, or only
\* whitespace lies between the block's closer and it
MergeCandidate(block) ==
    LET nextFence == FenceAfter(PassFences, block)
    IN  /\ nextFence # Null
        /\ \/ \A b \in 1..Len(PassBlocks) : PassBlocks[b].start # nextFence.index
           \/ ContentBetween(lines, block, nextFence) = <<>>

\* the opener line with its backtick run replaced by n backticks
OpenerWith(line, n) ==
    SubSeq(line, 1, LeadingWhitespace(line)) \o Repeat(n)
        \o SubSeq(line, LeadingWhitespace(line) + LeadingTicks(Trim(line)) + 1, Len(line))

\* C21: for every matched block of length n whose next marker after its closer
\* is no opener of a matched block, or is separated from the closer by nothing
\* but whitespace, the pass rewrites the block's opener (info string kept) and
\* that marker to exactly n+1 backticks, leaves the closer line as it is, and
\* restarts
C21_FragmentationWidens ==
    [][pc = "loop" =>
          \A b \in 1..Len(PassBlocks) :
              MergeCandidate(PassBlocks[b]) =>
                  LET block == PassBlocks[b]
                      nextFence == FenceAfter(PassFences, block)
                  IN  /\ Len(lines') >= nextFence.index
                      /\ lines'[block.start] =
                             OpenerWith(lines[block.start], block.fenceLength + 1)
                      /\ Trim(lines'[nextFence.index]) = Repeat(block.fenceLength + 1)
                      /\ lines'[block.end] = lines[block.end]
                      /\ changesMade' /\ step' = "fragmentation"]_vars

\* the text is two matched blocks and nothing else: no fence line inside a
\* block or after the second, only whitespace between the first closer and the
\* second opener, and the second opener has no info string
AdjacentBlocks(ls) ==
    LET fl == FenceLines(ls)
        walk == Walk(fl)
    IN  /\ Len(fl) = 4
        /\ walk.currentBlockStartFence = Null
        /\ Len(walk.blocks) = 2
        /\ fl[3].info = <<>>
        /\ ContentBetween(ls, walk.blocks[1], fl[3]) = <<>>

\* C22: two well-formed back-to-back blocks with no text between the first
\* closer and the second opener (second opener without info string) come back
\* as one merged block: the pairing walk over the returned text finds a single
\* block from the first opener to the second block's closer
C22_AdjacentMerged ==
    (pc = "done" /\ AdjacentBlocks(InLines)) =>
        LET before == Walk(FenceLines(InLines)).blocks
            after == Walk(FenceLines(OutLines)).blocks
        IN  /\ Len(after) = 1
            /\ after[1].start = before[1].start
            /\ after[1].end = before[2].end

\* ================================================ the repair passes, repeated
\* Repair passes applied one after the other to a text, as repeated calls of
\* repairMarkdown apply them (a call runs up to MaxPasses passes on the lines of
\* its argument and the next call goes on from the lines it returned).

\* the most passes followed
MaxIter == 7

\* the lines of the texts: prose, bare fences of 3 and 4 backticks, an opener
IterLines == {<<"a">>, Repeat(3), Repeat(4), Repeat(3) \o <<"a">>}

IterDocuments == UNION {[1..n -> IterLines] : n \in 1..MaxLines}

IterInit ==
    /\ content \in {Join(d) : d \in IterDocuments}
    /\ lines = Split(content)
    /\ pass = 0
    /\ changesMade = FALSE
    /\ step = "none"
    /\ pc = "iterate"
    /\ result = <<>>
    /\ op = "repairMarkdown"
    /\ arg = <<>>
    /\ ret = <<>>

\* a pass that rewrites the lines
IterPass ==
    /\ pc = "iterate"
    /\ pass < MaxIter
    /\ RepairPass(lines).changesMade
    /\ lines' = RepairPass(lines).lines
    /\ step' = RepairPass(lines).step
    /\ changesMade' = TRUE
    /\ pass' = pass + 1
    /\ UNCHANGED <<content, pc, result>>
    /\ UNCHANGED dvars

\* a pass that rewrites nothing: the text is a fixed point of the passes
IterStop ==
    /\ pc = "iterate"
    /\ ~RepairPass(lines).changesMade
    /\ changesMade' = FALSE
    /\ step' = "none"
    /\ pc' = "fixed"
    /\ result' = Join(lines)
    /\ UNCHANGED <<content, lines, pass>>
    /\ UNCHANGED dvars

IterNext == IterPass \/ IterStop

IterSpec == IterInit /\ [][IterNext]_vars

\* a text the passes never leave: one matched block whose closer is as long as
\* its opener, directly followed by a last line that is a bare fence no longer
\* than the opener (the walk leaves it open)
Diverging(ls) ==
    LET fl == FenceLines(ls)
        walk == Walk(fl)
        open == walk.currentBlockStartFence
    IN  /\ Len(walk.blocks) = 1
        /\ open # Null
        /\ open.index = Len(ls)
        /\ open.index = walk.blocks[1].end + 1
        /\ open.info = <<>>
        /\ open.length <= walk.blocks[1].fenceLength
        /\ FenceOf(ls[walk.blocks[1].end], walk.blocks[1].end).length
               = walk.blocks[1].fenceLength
        /\ MatchIndentTicksRest(ls[walk.blocks[1].start]).ok

\* from such a text the next two passes both rewrite (a closer is appended,
\* then the two blocks are merged) and give such a text again, one line longer
\* and with an opener one backtick longer
DivergingStep ==
    (pc = "iterate" /\ Diverging(lines)) =>
        LET one == RepairPass(lines)
            two == RepairPass(one.lines)
        IN  /\ one.changesMade /\ one.step = "unclosed"
            /\ two.changesMade /\ two.step = "fragmentation"
            /\ Diverging(two.lines)
            /\ Len(two.lines) = Len(lines) + 1

DivergingReached == pc = "iterate" /\ pass = 0 /\ Diverging(lines)

\* C23: from any text, repeated repair passes eventually reach a text on which
\* a pass makes no rewrite; so no text that the passes reach is taken by two
\* rewriting passes to a text of its own class, from which the same two
\* passes rewrite again
C23_Converges ==
    (pc = "iterate" /\ pass >= 2 /\ Diverging(lines)) =>
        ~(/\ RepairPass(lines).changesMade
          /\ RepairPass(RepairPass(lines).lines).changesMade
          /\ Diverging(RepairPass(RepairPass(lines).lines).lines))

\* ------------------------------------------------- claims on the growth of fences
\* C24: within one call the backtick run of a fence line grows by at most the
\* number of passes: the returned line has at most MaxPasses backticks more
\* than the input line at its index
C24_GrowthBound ==
    pc = "done" =>
        \A i \in 1..Len(InLines) :
            FenceOf(InLines[i], i) # Null =>
                /\ i <= Len(OutLines)
                /\ LeadingTicks(Trim(OutLines[i]))
                       <= LeadingTicks(Trim(InLines[i])) + MaxPasses

\* ------------------------------------------- claims on the nested-fence repair
\* the fence lines with no info string strictly inside the block
InnerClosers(ls, block) ==
    {j \in (block.start + 1)..(block.end - 1) :
        FenceOf(ls[j], j) # Null /\ FenceOf(ls[j], j).info = <<>>}

\* C25: for every block of the pairing walk, every fence line with no info
\* string strictly between opener and closer has fewer backticks than the
\* opener, so the nested-fence step finds no block to widen and no pass ever
\* rewrites a line in that step
C25_NestedNeverRewrites ==
    /\ step # "nested"
    /\ pc = "loop" =>
           /\ \A b \in 1..Len(PassBlocks) :
                  /\ \A j \in InnerClosers(lines, PassBlocks[b]) :
                         FenceOf(lines[j], j).length < PassBlocks[b].fenceLength
                  /\ MaxInnerBackticks(lines, PassBlocks[b]) < PassBlocks[b].fenceLength
           /\ ~NestedFrom(lines, PassBlocks, 1).changesMade

\* a pass went through the nested-fence step with a block that holds a fence
\* line with no info string, and rewrote nothing
C25_Witness ==
    /\ pc = "return" /\ step = "none" /\ ~changesMade
    /\ \E b \in 1..Len(Walk(FenceLines(lines)).blocks) :
           /\ InnerClosers(lines, Walk(FenceLines(lines)).blocks[b]) # {}
           /\ MaxInnerBackticks(lines, Walk(FenceLines(lines)).blocks[b]) >= 3

\* ------------------------------------------- claims on the declaration line
\* the input lines that give an output line, in order: the lines of the text
\* without their comments that are not blank
CodeInLines ==
    SelectSeq(StripComments(Split(NormalizeNewlines(arg))), LAMBDA l : Trim(l) # <<>>)

DiagramTypes == {<<"g", "r", "a", "p", "h">>, <<"f", "l", "o", "w", "c", "h", "a", "r", "t">>}

\* the line declares a graph or a flowchart: its first word is the type
Declares(l, type) ==
    \/ Trim(l) = type
    \/ StartsWith(Trim(l), type) /\ IsWhitespace(Trim(l)[Len(type) + 1])

\* the second word of the line, without a semicolon at its end
GivenDirection(l) ==
    LET words == SplitWhitespace(Trim(l))
        word == IF Len(words) >= 2 THEN words[2] ELSE <<>>
    IN  IF EndsWith(word, <<";">>) THEN SubSeq(word, 1, Len(word) - 1) ELSE word

\* C26: every line that declares a graph or flowchart comes out as exactly
\* "<type> <direction>": the given direction if it is one of TB, TD, BT, RL, LR,
\* and TD if it is invalid or missing (also for a line that is just the type);
\* a semicolon at the end is removed
C26_DeclarationNormalized ==
    CodeReturned =>
        \A i \in 1..Len(CodeInLines) : \A type \in DiagramTypes :
            Declares(CodeInLines[i], type) =>
                /\ i <= Len(OutCodeLines)
                /\ OutCodeLines[i] =
                       type \o <<" ">> \o
                           (IF GivenDirection(CodeInLines[i]) \in ValidDirs
                            THEN GivenDirection(CodeInLines[i]) ELSE <<"T", "D">>)

\* ------------------------------------------- claims on the node shapes
EdgeArrows == {<<"-", "-", ">">>, <<"-", ".", "-", ">">>, <<"=", "=", ">">>}
EdgeNodeIds == {<<"A">>, <<"B">>}
EdgeNodeLabels == {<<"S", "t", "a", "r", "t">>, <<"E", "n", "d">>}

\* the edge line  a[s] arrow b[t]  with the labels between the quotes q
BracketedEdge(a, s, arrow, b, t, q) ==
    a \o <<"[">> \o q \o s \o q \o <<"]", " ">> \o arrow \o <<" ">>
      \o b \o <<"[">> \o q \o t \o q \o <<"]">>

\* C27: a line with an edge operator and a bracketed node on each side, such as
\* A[Start] --> B[End], comes out with each label quoted on its own,
\* A["Start"] --> B["End"]: ids, arrow and both bracket pairs are kept and no
\* label spans the two nodes or takes in the arrow
C27_NodesQuotedSeparately ==
    CodeReturned =>
        \A i \in 1..Len(CodeInLines) :
            \A a \in EdgeNodeIds, b \in EdgeNodeIds, arrow \in EdgeArrows :
                \A s \in EdgeNodeLabels, t \in EdgeNodeLabels :
                    Trim(CodeInLines[i]) = BracketedEdge(a, s, arrow, b, t, <<>>) =>
                        /\ i <= Len(OutCodeLines)
                        /\ OutCodeLines[i] = BracketedEdge(a, s, arrow, b, t, <<"\"">>)

\* the shapes with a bracket syntax of their own (rect is the default syntax)
OwnSyntaxShapes == {<<"r", "o", "u", "n", "d", "e", "d">>, <<"c", "i", "r", "c", "l", "e">>, <<"d", "i", "a", "m", "o", "n", "d">>, <<"d", "a", "t", "a", "b", "a", "s", "e">>, <<"c", "l", "o", "u", "d">>, <<"h", "e", "x", "a", "g", "o", "n">>}

\* the edge types with an arrow of their own (arrow is the default arrow)
OwnArrowTypes == {<<"d", "o", "t", "t", "e", "d">>, <<"t", "h", "i", "c", "k">>, <<"l", "i", "n", "e">>}

\* a label as it may appear between the quotes
IsEmittedLabel(lab) == \A k \in 1..Len(lab) : lab[k] \notin {"\"", CR, NL}

\* the text between the quotes of a rectangle node line of the given id
RectLabel(line, id) == SubSeq(line, 5 + Len(id), Len(line) - 2)

\* the arrow and label of an edge line: what stands between the two ids
EdgeMid(line, e) == SubSeq(line, 4 + Len(e.from), Len(line) - Len(e.to) - 1)

\* C28: a node whose shape is missing or unrecognized is emitted in rectangle
\* syntax id["label"], an edge whose type is missing or unrecognized is emitted
\* with the solid arrow -->, an edge label is emitted as |"label"| directly
\* after the arrow token only when it is non-empty after cleaning, and emitted
\* labels never contain a double quote, carriage return or line feed
C28_Defaults ==
    GenReturned =>
        /\ Len(GenLines) = 1 + Len(GenNodes) + Len(GenEdges)
        /\ \A i \in 1..Len(GenNodes) :
               LET n == GenNodes[i]
                   line == GenLines[1 + i]
                   lab == RectLabel(line, n.id)
               IN  n.shape \notin OwnSyntaxShapes =>
                       /\ line = <<" ", " ">> \o CleanId(n.id) \o <<"[", "\"">> \o lab \o <<"\"", "]">>
                       /\ IsEmittedLabel(lab)
                       /\ lab = CleanLabel(IF n.label \in {Undefined, <<>>} THEN CleanId(n.id) ELSE n.label)
        /\ \A j \in 1..Len(GenEdges) :
               LET e == GenEdges[j]
                   mid == EdgeMid(GenLines[1 + Len(GenNodes) + j], e)
                   arrow == CHOOSE a \in ArrowTokens : StartsWith(mid, a)
                   rest == SubSeq(mid, Len(arrow) + 1, Len(mid))
                   lab == SubSeq(rest, 3, Len(rest) - 2)
               IN  /\ \E a \in ArrowTokens : StartsWith(mid, a)
                   /\ e.type \notin OwnArrowTypes => arrow = <<"-", "-", ">">>
                   /\ IF CleanLabel(e.label) = <<>> THEN rest = <<>>
                      ELSE /\ rest = <<"|", "\"">> \o lab \o <<"\"", "|">>
                           /\ lab = CleanLabel(e.label)
                           /\ IsEmittedLabel(lab)

C28_Witness ==
    /\ GenReturned
    /\ Len(GenNodes) = 2 /\ Len(GenEdges) = 1
    /\ GenNodes[1].shape = Undefined /\ GenNodes[2].shape = <<"b", "o", "g", "u", "s">>
    /\ GenNodes[2].label = <<" ", "\"", "x", NL>>
    /\ GenLines[3] = <<" ", " ", "a", "_", "1", "[", "\"", "x", "\"", "]">>
    /\ GenEdges[1].type = <<"b", "o", "g", "u", "s">> /\ GenEdges[1].label = <<"\"">>
    /\ GenLines[4] = <<" ", " ", "a", "_", "1", " ", "-", "-", ">", " ", "a", "_", "1">>

\* C29: two nodes with distinct ids in the graph spec are emitted with distinct
\* ids, and every edge endpoint in the output is the emitted id of the node
\* line of the spec node it referenced
C29_IdentityPreserved ==
    GenReturned =>
        /\ \A i, k \in 1..Len(GenNodes) :
               GenNodes[i].id # GenNodes[k].id =>
                   EmittedNodeId(GenLines[1 + i]) # EmittedNodeId(GenLines[1 + k])
        /\ \A j \in 1..Len(GenEdges) : \A i \in 1..Len(GenNodes) :
               LET line == GenLines[1 + Len(GenNodes) + j]
               IN  /\ GenEdges[j].from = GenNodes[i].id =>
                          EmittedFrom(line) = EmittedNodeId(GenLines[1 + i])
                   /\ GenEdges[j].to = GenNodes[i].id =>
                          EmittedTo(line) = EmittedNodeId(GenLines[1 + i])

\* ------------------------------------------------- Mermaid.renderDiagram
\* the charts that hold JSON: the parsed graph specs, node labels plain, with
\* a space, and with a slash, in every shape; edges of every type
RenderNodes ==
    {[id |-> <<"A">>, label |-> l, shape |-> s] :
        l \in {<<"S", "t", "a", "r", "t">>, <<"a", " ", "b">>, <<"a", "/", "b">>},
        s \in {Undefined, <<"r", "o", "u", "n", "d", "e", "d">>, <<"c", "i", "r", "c", "l", "e">>, <<"d", "i", "a", "m", "o", "n", "d">>, <<"d", "a", "t", "a", "b", "a", "s", "e">>, <<"c", "l", "o", "u", "d">>, <<"h", "e", "x", "a", "g", "o", "n">>}}

RenderEdges ==
    {[from |-> <<"A">>, to |-> <<"B">>, label |-> l, type |-> t] :
        l \in {Undefined, <<"L">>},
        t \in {Undefined, <<"d", "o", "t", "t", "e", "d">>, <<"t", "h", "i", "c", "k">>, <<"l", "i", "n", "e">>}}

RenderCharts ==
    [direction : {<<"T", "D">>, <<"L", "R">>},
     nodes : {ArrayOf(ns) : ns \in UNION {[1..n -> RenderNodes] : n \in 0..MaxNodes}},
     edges : {ArrayOf(es) : es \in UNION {[1..n -> RenderEdges] : n \in 0..MaxEdges}}]

RenderInit ==
    /\ RepairIdle
    /\ pc = "call"
    /\ op = "renderDiagram"
    /\ arg \in RenderCharts
    /\ ret = <<>>

\* codeToRender = generateMermaidFromJSON(data)
ConvertJSON ==
    /\ pc = "call"
    /\ op = "renderDiagram"
    /\ ret' = GenerateMermaidFromJSON(arg)
    /\ pc' = "converted"
    /\ UNCHANGED <<content, lines, pass, changesMade, step, result, op, arg>>

\* Layer 1: sanitized = sanitizeMermaidCode(codeToRender)
SanitizeLayer ==
    /\ pc = "converted"
    /\ ~ret.threw
    /\ result' = SanitizeMermaidCode(ret.value)
    /\ pc' = "sanitized"
    /\ UNCHANGED <<content, lines, pass, changesMade, step, op, arg, ret>>

RenderNext == ConvertJSON \/ SanitizeLayer

RenderSpec == RenderInit /\ [][RenderNext]_vars

\* a graph spec with a valid direction whose labels hold safe characters only
SafeChart(data) ==
    /\ data.direction \in ValidDirs
    /\ \A i \in 1..Len(data.nodes.items) :
           \A k \in 1..Len(data.nodes.items[i].label) : IsSafeChar(data.nodes.items[i].label[k])
    /\ \A j \in 1..Len(data.edges.items) :
           data.edges.items[j].label # Undefined =>
               \A k \in 1..Len(data.edges.items[j].label) : IsSafeChar(data.edges.items[j].label[k])

Unindented(text) ==
    Join([i \in 1..Len(Split(text)) |->
              SubSeq(Split(text)[i], LeadingWhitespace(Split(text)[i]) + 1, Len(Split(text)[i]))])

\* C30: for every graph spec with a valid direction whose labels contain only
\* safe-class characters, sanitizeMermaidCode(generateMermaidFromJSON(spec))
\* equals generateMermaidFromJSON(spec) with each line's leading indentation
\* removed
C30_SanitizeKeepsGenerated ==
    (pc = "sanitized" /\ SafeChart(arg)) => result = Unindented(ret.value)

====
